---- MODULE Spec2Model ----
(***************************************************************************)
(* WechatferryAgent (packages/agent/src/agent.ts): the Proxy installed by  *)
(* the constructor gates every method whose name starts with "send" by the *)
(* global limiter and by the recipient's throttle.                         *)
(*                                                                         *)
(* Time is discrete.  The limiter parameters of the source (40 per 60000   *)
(* ms, one per randomInt(1000, 3000) ms) are scaled down to the bounds     *)
(* below.  Handlers take no time: time advances only by Tick, and Tick     *)
(* waits for every call whose limiter can start it.                        *)
(*                                                                         *)
(* The limiter primitive itself (package p-throttle) is not part of the    *)
(* repository's sources; it is modelled as the fixed-window limiter of the *)
(* specification (capacity, windowDuration, windowStart, usedInWindow,     *)
(* pendingQueue), with windowStart kept as the age of the window.          *)
(***************************************************************************)
EXTENDS Integers, Sequences, FiniteSets, TLC

\* ------------------------------------------------------------------ bounds
\* Number of calls made through the agent in one behaviour.
MaxCalls == 3
\* throttleGlobal: limit 40 (agent.ts:19), scaled.
GlobalLimit == 1
\* throttleGlobal: interval 60000 ms (agent.ts:20), scaled.
GlobalInterval == 1
\* randomInt(1000, 3000) (agent.ts:124): lower bound, inclusive, scaled.
IntervalMin == 1
\* randomInt(1000, 3000) (agent.ts:124): upper bound, exclusive, scaled.
IntervalMaxExcl == 3

\* Number of handler runs of the agent's lifecycle (start, stop, polling
\* ticks) in one behaviour.
MaxSteps == 4

\* Rows a query returns.
MaxRows == 2
\* Fields in a sender-extra blob.
MaxFields == 1
\* Sub-records in a room-membership blob.
MaxMembers == 2

\* Recipient identifiers (ordinary conversation ids: no id is the name of a
\* property that a plain object inherits).  The ids are opaque keys, so the
\* callers address new recipients in this order.
RecipientOrder == <<"alice", "bob", "carol">>
Recipients == {RecipientOrder[i] : i \in DOMAIN RecipientOrder}

\* Outcomes of the transport collaborator's primitives.
Outcomes == {"ok", "error"}

Min(a, b) == IF a < b THEN a ELSE b

\* ------------------------------------------------------- method names
\* The members of WechatferryAgent a caller can reach through the proxy that
\* the model exercises, with their spelling (the get trap tests the spelling).
Spelling(prop) ==
  CASE prop = "sendText" -> <<"s","e","n","d","T","e","x","t">>
    [] prop = "sendImage" -> <<"s","e","n","d","I","m","a","g","e">>
    [] prop = "sendFile" -> <<"s","e","n","d","F","i","l","e">>
    [] prop = "sendRichText" -> <<"s","e","n","d","R","i","c","h","T","e","x","t">>
    [] prop = "forwardMsg" -> <<"f","o","r","w","a","r","d","M","s","g">>
    [] prop = "inviteChatRoomMembers" ->
         <<"i","n","v","i","t","e","C","h","a","t","R","o","o","m",
           "M","e","m","b","e","r","s">>
    [] prop = "addChatRoomMembers" ->
         <<"a","d","d","C","h","a","t","R","o","o","m",
           "M","e","m","b","e","r","s">>
    [] prop = "removeChatRoomMembers" ->
         <<"r","e","m","o","v","e","C","h","a","t","R","o","o","m",
           "M","e","m","b","e","r","s">>
    [] prop = "dbSqlQuery" -> <<"d","b","S","q","l","Q","u","e","r","y">>
    [] prop = "getContactList" ->
         <<"g","e","t","C","o","n","t","a","c","t","L","i","s","t">>

\* String.prototype.startsWith
StartsWith(chars, prefix) ==
  /\ Len(chars) >= Len(prefix)
  /\ SubSeq(chars, 1, Len(prefix)) = prefix

\* prop.startsWith('send') narrowed to one method name.
IsSendNameTextOnly(prop) == prop = "sendText"

\* The methods of the agent that the model calls through the proxy.
Methods ==
  {"sendText", "sendImage", "sendFile", "sendRichText", "forwardMsg",
   "inviteChatRoomMembers"}

\* The agent's send methods: sendText, sendImage, sendFile, sendRichText.
SendMethods == {"sendText", "sendImage", "sendFile", "sendRichText"}

\* The agent's operations that send nothing: the room-membership
\* operations, dbSqlQuery and a read path built on it.
NonSendMethods ==
  {"inviteChatRoomMembers", "addChatRoomMembers", "removeChatRoomMembers",
   "dbSqlQuery", "getContactList"}

\* typeof target[prop] === 'function'
IsFunction(prop) == prop \in Methods \cup NonSendMethods

\* prop.startsWith('send')
IsSendName(prop) == StartsWith(Spelling(prop), <<"s","e","n","d">>)

\* The transport primitive each agent method forwards to.
TransportOp(prop) ==
  CASE prop = "sendText" -> "sendTxt"
    [] prop = "sendImage" -> "sendImg"
    [] prop = "sendFile" -> "sendFile"
    [] prop = "sendRichText" -> "sendRichText"
    [] prop = "forwardMsg" -> "forwardMsg"
    [] prop = "inviteChatRoomMembers" -> "inviteRoomMembers"
    [] prop = "addChatRoomMembers" -> "addRoomMembers"
    [] prop = "removeChatRoomMembers" -> "delRoomMembers"
    [] prop = "dbSqlQuery" -> "execDbQuery"
    [] prop = "getContactList" -> "execDbQuery"

\* ------------------------------------------------- fixed-window limiter
\* pThrottle({limit, interval}): a limiter that has started no window yet.
\* windowAge is the time since windowStart, kept up to windowDuration (an
\* elapsed window).
NewLimiter(limit, interval) ==
  [capacity |-> limit, windowDuration |-> interval, windowAge |-> interval,
   usedInWindow |-> 0, pendingQueue |-> <<>>]

WindowElapsed(L) == L.windowAge >= L.windowDuration

\* The limiter can start one more call now.
CanStart(L) == WindowElapsed(L) \/ L.usedInWindow < L.capacity

\* An arriving call is started at once: nothing is queued before it.
AdmitsNow(L) == L.pendingQueue = <<>> /\ CanStart(L)

\* Starting a call: a new window begins if the current one has elapsed.
StartCall(L) ==
  IF WindowElapsed(L)
    THEN [L EXCEPT !.windowAge = 0, !.usedInWindow = 1]
    ELSE [L EXCEPT !.usedInWindow = @ + 1]

Enqueue(L, c) == [L EXCEPT !.pendingQueue = Append(@, c)]

\* The deferred call the limiter resumes next (arrival order).
NextDeferred(L) == Head(L.pendingQueue)

Dequeue(L) == [L EXCEPT !.pendingQueue = Tail(@)]

\* One unit of time passes.
Older(L) == [L EXCEPT !.windowAge = Min(@ + 1, L.windowDuration)]

\* ---------------------------------------------------------------- state
VARIABLES
  safe,               \* the option resolved by the constructor
  throttleGlobal,     \* the global limiter
  throttles,          \* the limiters created by getThrottleForRecipient
  recipientThrottles, \* the registry: recipient id -> index in throttles
  calls,              \* the calls made through the proxy, in call order
  wcfLog,             \* the transport primitives executed, in order
  sinceExec,          \* per recipient: time since its last send execution
  execsNow,           \* send executions started at the current instant
  globalWindowExecs,  \* send executions started in the global limiter's window
  globalWindowCalls   \* calls the global limiter started in its window

\* The lifecycle of the agent: start, stop and the login polling.
VARIABLES
  timer,       \* the field `timer` of the agent
  intervals,   \* the intervals startTimer has set, in order of creation
  events,      \* the events the agent has emitted, in order
  wcfRunning,  \* the transport has been started and not stopped
  wcfLogin,    \* the transport's login state
  detected,    \* a login check of start or of the poller saw the login
  lastOp,      \* the lifecycle handler that ran last, with its answers
  steps        \* the number of lifecycle handler runs so far

\* The local stores the read paths query, and what a read returned.
VARIABLES
  MSG,       \* the rows the history query returns, in the query's order
  ChatRoom,  \* the rows the room detail query returns, in the query's order
  returned   \* the last read path called, and its result

readVars == <<MSG, ChatRoom, returned>>

dispatchVars ==
  <<safe, throttleGlobal, throttles, recipientThrottles, calls, wcfLog,
    sinceExec, execsNow, globalWindowExecs, globalWindowCalls>>

lifecycleVars ==
  <<timer, intervals, events, wcfRunning, wcfLogin, detected, lastOp, steps>>

vars == <<safe, throttleGlobal, throttles, recipientThrottles, calls, wcfLog,
          sinceExec, execsNow, globalWindowExecs, globalWindowCalls,
          timer, intervals, events, wcfRunning, wcfLogin, detected, lastOp,
          steps, MSG, ChatRoom, returned>>

\* The state as one record, so that a handler is a function of the state.
State ==
  [safe |-> safe, throttleGlobal |-> throttleGlobal, throttles |-> throttles,
   recipientThrottles |-> recipientThrottles, calls |-> calls,
   wcfLog |-> wcfLog, sinceExec |-> sinceExec, execsNow |-> execsNow,
   globalWindowExecs |-> globalWindowExecs,
   globalWindowCalls |-> globalWindowCalls]

Becomes(st) ==
  /\ safe' = st.safe
  /\ throttleGlobal' = st.throttleGlobal
  /\ throttles' = st.throttles
  /\ recipientThrottles' = st.recipientThrottles
  /\ calls' = st.calls
  /\ wcfLog' = st.wcfLog
  /\ sinceExec' = st.sinceExec
  /\ execsNow' = st.execsNow
  /\ globalWindowExecs' = st.globalWindowExecs
  /\ globalWindowCalls' = st.globalWindowCalls
  /\ UNCHANGED lifecycleVars
  /\ UNCHANGED readVars

\* No execution yet for a recipient.
Never == 0 - 1

\* `timer: number | null = null`: no interval id.
NullTimer == 0

\* The lifecycle of an agent just constructed, with a transport that is not
\* started.
Constructed ==
  /\ timer = NullTimer
  /\ intervals = <<>>
  /\ events = <<>>
  /\ wcfRunning = FALSE
  /\ detected = FALSE
  /\ lastOp = [op |-> "new", answers |-> <<>>]
  /\ steps = 0

\* No read path has been called.
NoRead == [op |-> "none", failed |-> FALSE, value |-> <<>>]

\* Empty stores.
NoRows ==
  /\ MSG = <<>>
  /\ ChatRoom = <<>>
  /\ returned = NoRead

Init ==
  /\ safe \in BOOLEAN
  /\ throttleGlobal = NewLimiter(GlobalLimit, GlobalInterval)
  /\ throttles = <<>>
  /\ recipientThrottles = [r \in {} |-> 0]
  /\ calls = <<>>
  /\ wcfLog = <<>>
  /\ sinceExec = [r \in Recipients |-> Never]
  /\ execsNow = 0
  /\ globalWindowExecs = 0
  /\ globalWindowCalls = {}
  /\ Constructed
  /\ wcfLogin = FALSE
  /\ NoRows

\* ------------------------------------------------------------- handlers
\* A wrapper that swallows the failure of the method.
ThrottledResultSwallowed(outcome) == "ok"

\* The value a throttled call settles with: both limiters resolve with the
\* promise of the function they run, which settles as the method did.
ThrottledResult(outcome) == outcome

\* (Reflect.get(target, prop, receiver)).apply(target, args): the agent's own
\* method runs and forwards to the transport primitive, which ends with
\* `outcome`.
InvokeUnderlying(st, c, outcome) ==
  LET call == st.calls[c]
      r == call.args[1]
      entry == [call |-> c, op |-> TransportOp(call.prop), receiver |-> r,
                payload |-> call.args[2], gap |-> st.sinceExec[r],
                outcome |-> outcome]
      isSend == call.prop \in SendMethods
  IN [st EXCEPT !.wcfLog = Append(@, entry),
                !.calls[c].phase = "executed",
                !.calls[c].result = ThrottledResult(outcome),
                !.sinceExec[r] = IF isSend THEN 0 ELSE @,
                !.execsNow = IF isSend THEN @ + 1 ELSE @,
                !.globalWindowExecs =
                   IF isSend /\ ~WindowElapsed(st.throttleGlobal)
                     THEN @ + 1 ELSE @]

\* throttledForRecipient() that forgets a call its throttle cannot start at
\* once.
RecipientStageDropping(st, c, outcome) ==
  LET t == st.calls[c].throttle
      L == st.throttles[t]
  IN IF AdmitsNow(L)
       THEN InvokeUnderlying(
              [st EXCEPT !.throttles[t] = StartCall(L),
                         !.calls[c].rAdmitted = TRUE], c, outcome)
       ELSE [st EXCEPT !.calls[c].phase = "recipient",
                       !.calls[c].waited = @ \cup {"recipient"}]

\* throttledForRecipient() whose throttle starts every call at once.
RecipientStageEager(st, c, outcome) ==
  LET t == st.calls[c].throttle
  IN InvokeUnderlying(
       [st EXCEPT !.throttles[t] = StartCall(@),
                  !.calls[c].rAdmitted = TRUE], c, outcome)

\* throttledForRecipient(): the call is submitted to the throttle captured
\* when the call was made; the throttle runs it now or defers it.
RecipientStage(st, c, outcome) ==
  LET t == st.calls[c].throttle
      L == st.throttles[t]
  IN IF AdmitsNow(L)
       THEN InvokeUnderlying(
              [st EXCEPT !.throttles[t] = StartCall(L),
                         !.calls[c].rAdmitted = TRUE], c, outcome)
       ELSE [st EXCEPT !.throttles[t] = Enqueue(L, c),
                       !.calls[c].phase = "recipient",
                       !.calls[c].waited = @ \cup {"recipient"}]

\* The global limiter starts call c: c takes one unit of the window's quota.
GlobalStart(st, c) ==
  LET fresh == WindowElapsed(st.throttleGlobal)
  IN [st EXCEPT !.throttleGlobal = StartCall(@),
                !.calls[c].gAdmitted = TRUE,
                !.globalWindowExecs = IF fresh THEN st.execsNow ELSE @,
                !.globalWindowCalls = IF fresh THEN {c} ELSE @ \cup {c}]

\* throttled() that runs the agent's method itself once the global limiter
\* admits the call, without the recipient's throttle.
GlobalStageOnly(st, c, outcome) ==
  IF AdmitsNow(st.throttleGlobal)
    THEN InvokeUnderlying(GlobalStart(st, c), c, outcome)
    ELSE [st EXCEPT !.throttleGlobal = Enqueue(@, c),
                    !.calls[c].phase = "global",
                    !.calls[c].waited = @ \cup {"global"}]

\* throttled() whose limiter starts every call at once.
GlobalStageUnlimited(st, c, outcome) ==
  RecipientStage(GlobalStart(st, c), c, outcome)

\* throttled(): the call is submitted to the global limiter, which runs
\* `async () => throttledForRecipient()` now or defers it.
GlobalStage(st, c, outcome) ==
  IF AdmitsNow(st.throttleGlobal)
    THEN RecipientStage(GlobalStart(st, c), c, outcome)
    ELSE [st EXCEPT !.throttleGlobal = Enqueue(@, c),
                    !.calls[c].phase = "global",
                    !.calls[c].waited = @ \cup {"global"}]

\* getThrottleForRecipient without the lookup: every call gets a throttle
\* of its own.
GetThrottleForRecipientFresh(st, recipient, interval) ==
  [st EXCEPT
     !.throttles = Append(@, NewLimiter(1, interval)),
     !.recipientThrottles =
        [r \in DOMAIN @ \cup {recipient} |->
           IF r = recipient THEN Len(st.throttles) + 1 ELSE @[r]]]

\* getThrottleForRecipient that draws the interval again at every call.
GetThrottleForRecipientRedrawn(st, recipient, interval) ==
  IF recipient \in DOMAIN st.recipientThrottles
    THEN [st EXCEPT !.throttles[st.recipientThrottles[recipient]]
                       .windowDuration = interval]
    ELSE GetThrottleForRecipientFresh(st, recipient, interval)

\* getThrottleForRecipient(recipient); `interval` is the value randomInt
\* would draw.
GetThrottleForRecipient(st, recipient, interval) ==
  IF recipient \in DOMAIN st.recipientThrottles
    THEN st
    ELSE [st EXCEPT
            !.throttles = Append(@, NewLimiter(1, interval)),
            !.recipientThrottles =
               [r \in DOMAIN @ \cup {recipient} |->
                  IF r = recipient THEN Len(st.throttles) + 1 ELSE @[r]]]

\* A call not yet handled by the proxy.
NewCall(prop, args) ==
  [prop |-> prop, args |-> args, throttle |-> 0, phase |-> "called",
   gAdmitted |-> FALSE, rAdmitted |-> FALSE, waited |-> {},
   result |-> "pending"]

\* A get trap that wraps every method, whatever its name.
IsGatedEveryFunction(st, prop) == st.safe /\ IsFunction(prop)

\* A get trap that does not test the safe option.
IsGatedAlways(st, prop) == IsFunction(prop) /\ IsSendName(prop)

\* The get trap decides that the member is wrapped.
IsGated(st, prop) == st.safe /\ IsFunction(prop) /\ IsSendName(prop)

\* proxy[prop](...args): the get trap and the call of what it returns.
ProxyCall(st, prop, args, interval, outcome) ==
  LET c == Len(st.calls) + 1
  IN IF IsGated(st, prop)
       THEN LET s1 == GetThrottleForRecipient(st, args[1], interval)
                t == s1.recipientThrottles[args[1]]
                s2 == [s1 EXCEPT !.calls =
                         Append(@, [NewCall(prop, args) EXCEPT !.throttle = t])]
            IN GlobalStage(s2, c, outcome)
       ELSE InvokeUnderlying(
              [st EXCEPT !.calls = Append(@, NewCall(prop, args))], c, outcome)

\* -------------------------------------------------------------- actions
Intervals == IntervalMin .. (IntervalMaxExcl - 1)

\* The inputs of one behaviour: new recipients are addressed in the order
\* of RecipientOrder, at most one call uses a method other than sendText, and
\* the transport fails at most one execution.
OtherCalls == {c \in DOMAIN calls : calls[c].prop # "sendText"}
Errors == {i \in DOMAIN wcfLog : wcfLog[i].outcome = "error"}
Addressed == {calls[c].args[1] : c \in DOMAIN calls}
MayAddress(id) ==
  \/ id \in Addressed
  \/ /\ Cardinality(Addressed) < Len(RecipientOrder)
     /\ id = RecipientOrder[Cardinality(Addressed) + 1]
MayUse(prop) == prop = "sendText" \/ OtherCalls = {}
MayEnd(outcome) == outcome = "ok" \/ Errors = {}

\* A caller calls a method of the agent; the payload names the call.
Call(prop, id, interval, outcome) ==
  /\ Len(calls) < MaxCalls
  /\ MayAddress(id)
  /\ MayUse(prop)
  /\ MayEnd(outcome)
  /\ Becomes(ProxyCall(State, prop, <<id, Len(calls) + 1>>, interval, outcome))

\* A limiter has a deferred call that it can start now.
Due(L) == L.pendingQueue # <<>> /\ CanStart(L)

\* The global limiter resumes its oldest deferred call, and runs
\* `async () => throttledForRecipient()` for it.
GlobalResumed(st, outcome) ==
  LET c == NextDeferred(st.throttleGlobal)
      s1 == [st EXCEPT !.throttleGlobal = Dequeue(@)]
  IN RecipientStage(GlobalStart(s1, c), c, outcome)

\* Recipient throttle t resumes its oldest deferred call, and runs the
\* agent's method for it.
RecipientResumed(st, t, outcome) ==
  LET c == NextDeferred(st.throttles[t])
      s1 == [st EXCEPT !.throttles[t] = StartCall(Dequeue(@)),
                       !.calls[c].rAdmitted = TRUE]
  IN InvokeUnderlying(s1, c, outcome)

ResumeGlobal(outcome) ==
  /\ MayEnd(outcome)
  /\ Due(throttleGlobal)
  /\ Becomes(GlobalResumed(State, outcome))

ResumeRecipient(t, outcome) ==
  /\ MayEnd(outcome)
  /\ t \in DOMAIN throttles
  /\ Due(throttles[t])
  /\ Becomes(RecipientResumed(State, t, outcome))

\* Some limiter has a deferred call it can start now.
ResumeDue ==
  \/ Due(throttleGlobal)
  \/ \E t \in DOMAIN throttles : Due(throttles[t])

GapCap == IntervalMaxExcl - 1

\* One unit of time passes; timers that are due fire first.
Tick ==
  /\ ~ResumeDue
  /\ Becomes([State EXCEPT
       !.throttleGlobal = Older(@),
       !.throttles = [t \in DOMAIN @ |-> Older(@[t])],
       !.sinceExec = [r \in Recipients |->
                        IF @[r] = Never THEN Never ELSE Min(@[r] + 1, GapCap)],
       !.execsNow = 0])

Next ==
  \/ \E prop \in Methods, id \in Recipients, interval \in Intervals,
        outcome \in Outcomes : Call(prop, id, interval, outcome)
  \/ \E outcome \in Outcomes : ResumeGlobal(outcome)
  \/ \E t \in 1..MaxCalls, outcome \in Outcomes : ResumeRecipient(t, outcome)
  \/ Tick

Spec == Init /\ [][Next]_vars

\* A timer of a limiter fires, or time advances.
Progress ==
  \/ \E outcome \in Outcomes : ResumeGlobal(outcome)
  \/ \E t \in 1..MaxCalls, outcome \in Outcomes : ResumeRecipient(t, outcome)
  \/ Tick

\* The steps of the agent when its callers use sendText only.
SendTextNext ==
  \/ \E id \in Recipients, interval \in Intervals, outcome \in Outcomes :
       Call("sendText", id, interval, outcome)
  \/ Progress

\* The event loop keeps running: timers fire and time advances.
FairSpec == Init /\ [][SendTextNext]_vars /\ WF_vars(Progress)

\* The steps of the agent when its callers use sendText and the operations
\* that send nothing.
FrameNext ==
  \/ \E id \in Recipients, interval \in Intervals, outcome \in Outcomes :
       Call("sendText", id, interval, outcome)
  \/ \E prop \in NonSendMethods, id \in Recipients, interval \in Intervals,
        outcome \in Outcomes : Call(prop, id, interval, outcome)
  \/ Progress

FrameSpec == Init /\ [][FrameNext]_vars

\* ------------------------------------------------------------ lifecycle
\* The lifecycle state as one record.
Lifecycle ==
  [timer |-> timer, intervals |-> intervals, events |-> events,
   wcfRunning |-> wcfRunning, detected |-> detected]

\* The answers of this.wcf.isLogin(): the login state, or an exception.
Answers == {"yes", "no", "throw"}

\* What this.wcf.isLogin() can answer while the transport's login state is
\* `login`.
AnswersWhen(login) == {IF login THEN "yes" ELSE "no", "throw"}

\* get isLoggedIn that takes a failed query for a login.
IsLoggedInUnlessNo(answer) == answer # "no"

\* get isLoggedIn: the answer of this.wcf.isLogin(); false when it throws.
IsLoggedIn(answer) == answer = "yes"

\* clearInterval(id): the interval with that id, if there is one, is
\* cancelled.
ClearInterval(ivs, id) ==
  [i \in DOMAIN ivs |->
     IF i = id THEN [ivs[i] EXCEPT !.active = FALSE] ELSE ivs[i]]

\* stopTimer(); every interval set so far has now seen a stopTimer.
StopTimer(ls) ==
  [ls EXCEPT
     !.intervals = [i \in DOMAIN @ |->
                      [ClearInterval(@, ls.timer)[i] EXCEPT !.stopped = TRUE]],
     !.timer = NullTimer]

\* this.emit(name, payload)
Emit(ls, name, payload) ==
  [ls EXCEPT !.events = Append(@, [name |-> name, payload |-> payload])]

\* checkLogin(); `answer` is what the login query answers.
CheckLogin(ls, answer) ==
  IF IsLoggedIn(answer)
    THEN StopTimer(Emit([ls EXCEPT !.detected = TRUE], "login", "userInfo"))
    ELSE ls

\* setInterval(callback, 5000): a new interval, whose id is the next index;
\* the id is not kept.  `checked` is the answer the login check of the same
\* startTimer() got.
SetInterval(ls, checked) ==
  [ls EXCEPT !.intervals =
     Append(@, [active |-> TRUE, stopped |-> FALSE, lateTicks |-> 0,
                checked |-> checked])]

\* startTimer()
StartTimer(ls, answer) ==
  SetInterval(CheckLogin(StopTimer(ls), answer), answer)

\* start(): the transport starts, then startTimer().
StartHandler(ls, answer) ==
  StartTimer([ls EXCEPT !.wcfRunning = TRUE], answer)

\* stop(error)
StopHandler(ls, answer, error) ==
  LET s1 == StopTimer(ls)
      s2 == IF IsLoggedIn(answer) THEN Emit(s1, "logout", "none") ELSE s1
      s3 == [s2 EXCEPT !.wcfRunning = FALSE]
  IN IF error THEN Emit(s3, "error", "error") ELSE s3

\* The callback of interval i; `first` answers its own login query and
\* `second` the one of checkLogin.  A tick after a stopTimer is counted.
IntervalCallback(ls, i, first, second) ==
  LET s1 == [ls EXCEPT !.intervals[i].lateTicks =
                         IF ls.intervals[i].stopped THEN @ + 1 ELSE @]
  IN IF IsLoggedIn(first)
       THEN StopTimer([s1 EXCEPT !.detected = TRUE])
       ELSE CheckLogin(s1, second)

LifecycleBecomes(ls) ==
  /\ timer' = ls.timer
  /\ intervals' = ls.intervals
  /\ events' = ls.events
  /\ wcfRunning' = ls.wcfRunning
  /\ detected' = ls.detected
  /\ steps' = steps + 1
  /\ UNCHANGED dispatchVars
  /\ UNCHANGED readVars

\* A caller starts the agent.
Start(answer) ==
  /\ steps < MaxSteps
  /\ answer \in AnswersWhen(wcfLogin)
  /\ LifecycleBecomes(StartHandler(Lifecycle, answer))
  /\ lastOp' = [op |-> "start", answers |-> <<answer>>]
  /\ UNCHANGED wcfLogin

\* A caller, or a process event, stops the agent.
Stop(answer, error) ==
  /\ steps < MaxSteps
  /\ answer \in AnswersWhen(wcfLogin)
  /\ LifecycleBecomes(StopHandler(Lifecycle, answer, error))
  /\ lastOp' = [op |-> "stop", answers |-> <<answer>>]
  /\ UNCHANGED wcfLogin

\* Interval i fires.  The transport's login state is the transport's own and
\* may change between the two queries of the callback: `second` is the
\* answer of the second query, and the login state it reports.
Poll(i, first, second) ==
  /\ steps < MaxSteps
  /\ i \in DOMAIN intervals
  /\ intervals[i].active
  /\ first \in AnswersWhen(wcfLogin)
  /\ LifecycleBecomes(IntervalCallback(Lifecycle, i, first, second))
  /\ IF IsLoggedIn(first)
       THEN /\ second = first
            /\ lastOp' = [op |-> "poll", answers |-> <<first>>]
            /\ UNCHANGED wcfLogin
       ELSE /\ lastOp' = [op |-> "poll", answers |-> <<first, second>>]
            /\ wcfLogin' = IF second = "throw" THEN wcfLogin
                                               ELSE second = "yes"

\* The user logs in to, or out of, the transport.
LoginChanges ==
  /\ wcfLogin' = ~wcfLogin
  /\ UNCHANGED <<timer, intervals, events, wcfRunning, detected, lastOp,
                 steps>>
  /\ UNCHANGED dispatchVars
  /\ UNCHANGED readVars

LifecycleInit ==
  /\ safe \in BOOLEAN
  /\ throttleGlobal = NewLimiter(GlobalLimit, GlobalInterval)
  /\ throttles = <<>>
  /\ recipientThrottles = [r \in {} |-> 0]
  /\ calls = <<>>
  /\ wcfLog = <<>>
  /\ sinceExec = [r \in Recipients |-> Never]
  /\ execsNow = 0
  /\ globalWindowExecs = 0
  /\ globalWindowCalls = {}
  /\ Constructed
  /\ wcfLogin \in BOOLEAN
  /\ NoRows

LifecycleNext ==
  \/ \E answer \in Answers : Start(answer)
  \/ \E answer \in Answers, error \in BOOLEAN : Stop(answer, error)
  \/ \E i \in 1..MaxSteps, first \in Answers, second \in Answers :
       Poll(i, first, second)
  \/ LoginChanges

LifecycleSpec == LifecycleInit /\ [][LifecycleNext]_vars

\* ----------------------------------------------------------- read paths
\* Sequences over S of length at most n.
SeqsUpTo(S, n) == UNION {[1..k -> S] : k \in 0..n}

\* JavaScript's undefined, for a string that may be absent.
Undefined == "<undefined>"

\* this.wcf.getSelfWxid(): the agent's own account.
SelfWxid == "wxid_self"

\* A sender-extra blob (column BytesExtra): tagged fields in buffer order,
\* and whether the buffer is cut short after them.
ExtraFields ==
  {[tag |-> "sender", value |-> "wxid_abc123"],
   [tag |-> "sender", value |-> ""],
   [tag |-> "other", value |-> "x"]}
ExtraBlobs == [fields : SeqsUpTo(ExtraFields, MaxFields), truncated : BOOLEAN]

\* decodeBytesExtra: the fields of the buffer; none when the buffer is empty
\* or cut short.
DecodeBytesExtra(blob) ==
  [properties |-> IF blob.truncated THEN <<>> ELSE blob.fields]

\* getWxidFromBytesExtra: the value of the first field that carries the
\* sender, if there is one.
GetWxidFromBytesExtra(extra) ==
  LET at == {i \in DOMAIN extra.properties :
               extra.properties[i].tag = "sender"}
  IN IF at = {} THEN Undefined
     ELSE extra.properties[CHOOSE i \in at : \A j \in at : i <= j].value

\* a || b on strings: b when a is undefined or empty.
OrElse(a, b) == IF a = Undefined \/ a = "" THEN b ELSE a

\* The map of getHistoryMessageList without the fallback.
HistoryEntryAsDecoded(msg, self) ==
  [localId |-> msg.localId, BytesExtra |-> msg.BytesExtra,
   talkerWxid |-> GetWxidFromBytesExtra(DecodeBytesExtra(msg.BytesExtra))]

\* The map callback of getHistoryMessageList: {...msg, talkerWxid: wxid}.
HistoryEntry(msg, self) ==
  [localId |-> msg.localId, BytesExtra |-> msg.BytesExtra,
   talkerWxid |->
     OrElse(GetWxidFromBytesExtra(DecodeBytesExtra(msg.BytesExtra)), self)]

\* getHistoryMessageList: data.map(...) over the rows of the query.
GetHistoryMessageList(data, self) ==
  [i \in DOMAIN data |-> HistoryEntry(data[i], self)]

\* A room-membership blob (column RoomData): absent (a group without a
\* ChatRoom row), or chunks in buffer order, each a member sub-record or
\* bytes that do not decode.
RoomChunks ==
  {[kind |-> "member", wxid |-> "w1"], [kind |-> "member", wxid |-> "w2"],
   [kind |-> "garbled", wxid |-> ""]}
RoomBlobs ==
  {[present |-> FALSE, chunks |-> <<>>]}
    \cup [present : {TRUE}, chunks : SeqsUpTo(RoomChunks, MaxMembers)]

\* The number of chunks before the first that does not decode.
RECURSIVE WellFormedPrefix(_)
WellFormedPrefix(chunks) ==
  IF chunks = <<>> \/ Head(chunks).kind # "member"
    THEN 0 ELSE 1 + WellFormedPrefix(Tail(chunks))

\* decodeRoomData: the member sub-records decoded up to the first chunk that
\* does not decode; no member list for an absent blob.
DecodeRoomData(blob) ==
  [hasMembers |-> blob.present,
   members |-> IF blob.present
                 THEN [k \in 1..WellFormedPrefix(blob.chunks) |->
                         [wxid |-> blob.chunks[k].wxid, state |-> 0]]
                 ELSE <<>>]

\* data.members?.map(m => m.wxid) ?? []
MemberIdList(data) ==
  IF data.hasMembers
    THEN [k \in DOMAIN data.members |-> data.members[k].wxid] ELSE <<>>

\* The map callback of getChatRoomDetailList.
RoomEntry(v) ==
  [UserName |-> v.UserName, RoomData |-> v.RoomData, Reserved2 |-> v.Reserved2,
   ownerUserName |-> v.Reserved2,
   memberIdList |-> MemberIdList(DecodeRoomData(v.RoomData))]

\* getChatRoomDetailList that leaves out the groups without members.
GetChatRoomDetailListSkipping(list) ==
  LET Kept(v) == MemberIdList(DecodeRoomData(v.RoomData)) # <<>>
      kept == SelectSeq(list, Kept)
  IN [i \in DOMAIN kept |-> RoomEntry(kept[i])]

\* getChatRoomDetailList: list.map(...) over the rows of the query.
GetChatRoomDetailList(list) == [i \in DOMAIN list |-> RoomEntry(list[i])]

\* The tables the queries can return: row i is the i-th row of the result.
MsgTables ==
  {[i \in DOMAIN b |-> [localId |-> i, BytesExtra |-> b[i]]] :
     b \in SeqsUpTo(ExtraBlobs, MaxRows)}
RoomTables ==
  {[i \in DOMAIN b |-> [UserName |-> i, Reserved2 |-> "owner",
                        RoomData |-> b[i]]] :
     b \in SeqsUpTo(RoomBlobs, MaxRows)}

\* A caller reads the history of a conversation.
ReadHistory ==
  /\ returned' = [op |-> "getHistoryMessageList", failed |-> FALSE,
                  value |-> GetHistoryMessageList(MSG, SelfWxid)]
  /\ UNCHANGED <<MSG, ChatRoom>>
  /\ UNCHANGED dispatchVars
  /\ UNCHANGED lifecycleVars

\* A caller reads the room detail list.
ReadRooms ==
  /\ returned' = [op |-> "getChatRoomDetailList", failed |-> FALSE,
                  value |-> GetChatRoomDetailList(ChatRoom)]
  /\ UNCHANGED <<MSG, ChatRoom>>
  /\ UNCHANGED dispatchVars
  /\ UNCHANGED lifecycleVars

ReadInit ==
  /\ safe \in BOOLEAN
  /\ throttleGlobal = NewLimiter(GlobalLimit, GlobalInterval)
  /\ throttles = <<>>
  /\ recipientThrottles = [r \in {} |-> 0]
  /\ calls = <<>>
  /\ wcfLog = <<>>
  /\ sinceExec = [r \in Recipients |-> Never]
  /\ execsNow = 0
  /\ globalWindowExecs = 0
  /\ globalWindowCalls = {}
  /\ Constructed
  /\ wcfLogin = TRUE
  /\ \/ MSG \in MsgTables /\ ChatRoom = <<>>
     \/ MSG = <<>> /\ ChatRoom \in RoomTables
  /\ returned = NoRead

ReadNext == ReadHistory \/ ReadRooms

ReadSpec == ReadInit /\ [][ReadNext]_vars

\* =============================================================== claims
\* The throttle the registry holds for recipient r.
ThrottleOf(r) == throttles[recipientThrottles[r]]

\* The executions of the agent's send methods, as positions of wcfLog.
SendExecs == {i \in DOMAIN wcfLog : calls[wcfLog[i].call].prop \in SendMethods}

\* The calls of the agent's send methods.
SendCalls == {c \in DOMAIN calls : calls[c].prop \in SendMethods}

\* C1: in safe mode, two consecutive executions of send methods for the same
\* recipient start at least the recipient's window duration apart (gap is
\* the time since the recipient's previous send execution, kept up to the
\* largest window duration).
C1_RecipientSpacing ==
  safe =>
    \A i \in SendExecs :
      wcfLog[i].gap # Never =>
        wcfLog[i].gap >= ThrottleOf(wcfLog[i].receiver).windowDuration

\* C1 witness: a send that its recipient's throttle deferred has executed
\* exactly one window after the previous send to the recipient, and the two
\* sends used different methods.
C1_Witness ==
  /\ safe
  /\ \E i, j \in SendExecs :
       /\ i < j
       /\ wcfLog[i].receiver = wcfLog[j].receiver
       /\ wcfLog[i].op # wcfLog[j].op
       /\ "recipient" \in calls[wcfLog[j].call].waited
       /\ wcfLog[j].gap = ThrottleOf(wcfLog[j].receiver).windowDuration

\* C2: in safe mode, at most GlobalLimit send executions start within one
\* window of the global limiter.
C2_GlobalWindowCap == safe => globalWindowExecs <= GlobalLimit

\* C3: in safe mode, a send is submitted to the global limiter only once its
\* recipient's throttle has admitted it, and a send waiting at its recipient's
\* throttle has consumed no quota of the global limiter.
C3_RecipientGateFirst ==
  safe =>
    \A c \in SendCalls :
      /\ (calls[c].phase = "global" \/ calls[c].gAdmitted) => calls[c].rAdmitted
      /\ calls[c].phase = "recipient" => ~calls[c].gAdmitted

\* The sends to other recipients than b's that hold quota of the global
\* limiter's current window while waiting at their recipient's throttle.
HeldAtRecipientGate(b) ==
  {a \in globalWindowCalls :
     /\ calls[a].phase = "recipient"
     /\ calls[a].args[1] # calls[b].args[1]}

\* C4: in safe mode, a send whose recipient gate is clear is not kept waiting
\* by the global limiter because of quota held by sends to other recipients
\* that still wait at their recipient's throttle: without those the window
\* would be full as well.
C4_NoCrossRecipientBlocking ==
  safe =>
    \A b \in SendCalls :
      ( /\ calls[b].phase = "global"
        /\ ~WindowElapsed(throttleGlobal)
        /\ AdmitsNow(throttles[calls[b].throttle]) )
      => throttleGlobal.usedInWindow - Cardinality(HeldAtRecipientGate(b))
           >= throttleGlobal.capacity

\* C5: in safe mode, sends to the same recipient execute in the order of
\* their calls.
C5_RecipientFifo ==
  safe =>
    \A i, j \in SendExecs :
      (i < j /\ wcfLog[i].receiver = wcfLog[j].receiver)
        => wcfLog[i].call < wcfLog[j].call

\* C5 witness: two sends to one recipient have executed in call order, the
\* second after waiting, with a later send to another recipient executed in
\* between.
C5_Witness ==
  /\ safe
  /\ \E i, k, j \in SendExecs :
       /\ i < k /\ k < j
       /\ wcfLog[i].receiver = wcfLog[j].receiver
       /\ wcfLog[k].receiver # wcfLog[i].receiver
       /\ wcfLog[k].call > wcfLog[i].call
       /\ calls[wcfLog[j].call].waited # {}

\* The executions of call c, as positions of wcfLog.
ExecsOf(c) == {i \in DOMAIN wcfLog : wcfLog[i].call = c}

\* The calls made and not executed yet.
Unexecuted == {c \in DOMAIN calls : calls[c].phase # "executed"}

\* C6: in safe mode, every call of a send method is eventually executed,
\* whatever is queued and whether or not other executions fail: whenever
\* calls wait, a state follows in which every call made has been executed.
C6_EverySendExecutes == (safe /\ Unexecuted # {}) ~> (Unexecuted = {})

\* C6 witness: after a failed execution, a send that waited at the global
\* limiter and then at its recipient's throttle has been executed.
C6_Witness ==
  /\ safe
  /\ \E i, j \in SendExecs :
       /\ i < j
       /\ wcfLog[i].outcome = "error"
       /\ calls[wcfLog[j].call].waited = {"global", "recipient"}

\* C7: in safe mode, a call of a send method is executed at most once, and
\* exactly once when it has been executed or settled; the execution carries
\* the call's own arguments and comes after both limiters admitted the call.
C7_ExecutedOnceAsCalled ==
  safe =>
    \A c \in SendCalls :
      /\ Cardinality(ExecsOf(c)) <= 1
      /\ (calls[c].phase = "executed" \/ calls[c].result # "pending")
           <=> ExecsOf(c) # {}
      /\ \A i \in ExecsOf(c) :
           /\ wcfLog[i].op = TransportOp(calls[c].prop)
           /\ wcfLog[i].receiver = calls[c].args[1]
           /\ wcfLog[i].payload = calls[c].args[2]
           /\ calls[c].gAdmitted /\ calls[c].rAdmitted

\* C7 witness: a sendImage call that waited at the global limiter and then
\* at its recipient's throttle has been executed, as sendImg to its recipient.
C7_Witness ==
  /\ safe
  /\ \E c \in SendCalls :
       /\ calls[c].prop = "sendImage"
       /\ calls[c].waited = {"global", "recipient"}
       /\ \E i \in ExecsOf(c) :
            wcfLog[i].op = "sendImg" /\ wcfLog[i].receiver = calls[c].args[1]

\* The registry and the throttles it holds.
RegistryInv ==
  /\ \A r \in DOMAIN recipientThrottles :
       /\ recipientThrottles[r] \in DOMAIN throttles
       /\ ThrottleOf(r).capacity = 1
       /\ ThrottleOf(r).windowDuration >= IntervalMin
       /\ ThrottleOf(r).windowDuration < IntervalMaxExcl
  /\ \A r1, r2 \in DOMAIN recipientThrottles :
       r1 # r2 => recipientThrottles[r1] # recipientThrottles[r2]
  /\ Len(throttles) = Cardinality(DOMAIN recipientThrottles)
  /\ DOMAIN recipientThrottles =
       IF safe THEN {calls[c].args[1] : c \in SendCalls} ELSE {}
  /\ safe => \A c \in SendCalls :
               calls[c].throttle = recipientThrottles[calls[c].args[1]]

\* A step keeps every entry of the registry, its throttle and the throttle's
\* parameters.
RegistryStep ==
  \A r \in DOMAIN recipientThrottles :
    /\ r \in DOMAIN recipientThrottles'
    /\ recipientThrottles'[r] = recipientThrottles[r]
    /\ throttles'[recipientThrottles[r]].windowDuration
         = ThrottleOf(r).windowDuration
    /\ throttles'[recipientThrottles[r]].capacity = ThrottleOf(r).capacity

\* C8: the registry holds at most one throttle per recipient id, created by
\* the first gated send to the id with capacity 1 and a window duration in
\* [IntervalMin, IntervalMaxExcl); every send to the id uses that throttle,
\* and no entry is ever removed, replaced or given another duration.
C8_RegistryStable == []RegistryInv /\ [][RegistryStep]_vars

\* C8 witness: two recipients hold throttles of different durations, one of
\* them used by two sends, the second of which is waiting in it.
C8_Witness ==
  /\ safe
  /\ \E r1, r2 \in DOMAIN recipientThrottles :
       /\ ThrottleOf(r1).windowDuration # ThrottleOf(r2).windowDuration
       /\ ThrottleOf(r1).pendingQueue # <<>>
       /\ Cardinality({c \in SendCalls : calls[c].args[1] = r1}) >= 2

\* C9: in unsafe mode every call is executed within the call, exactly once
\* and without waiting, no recipient throttle is created and the global
\* limiter stays as constructed.
C9_UnsafeBypass ==
  ~safe =>
    /\ throttleGlobal = NewLimiter(GlobalLimit, GlobalInterval)
    /\ throttles = <<>>
    /\ DOMAIN recipientThrottles = {}
    /\ \A c \in DOMAIN calls :
         /\ calls[c].phase = "executed"
         /\ calls[c].waited = {}
         /\ ~calls[c].gAdmitted /\ ~calls[c].rAdmitted
         /\ Cardinality(ExecsOf(c)) = 1

\* C9 witness: in unsafe mode more sends than the global limit have been
\* executed at one instant, two of them to the same recipient.
C9_Witness ==
  /\ ~safe
  /\ execsNow > GlobalLimit
  /\ \E i \in SendExecs : wcfLog[i].gap = 0

\* What decides which calls the limiters admit, and when.
LimiterView(st) ==
  [throttleGlobal |-> st.throttleGlobal, throttles |-> st.throttles,
   recipientThrottles |-> st.recipientThrottles,
   progress |-> [c \in DOMAIN st.calls |->
                   <<st.calls[c].phase, st.calls[c].gAdmitted,
                     st.calls[c].rAdmitted, st.calls[c].waited>>]]

\* Whatever step is taken next, the limiters end in the same state whether
\* the execution in it fails or succeeds.
FailureNeutral ==
  /\ Len(calls) < MaxCalls =>
       \A prop \in Methods, id \in Recipients, interval \in Intervals :
         LimiterView(ProxyCall(State, prop, <<id, Len(calls) + 1>>, interval, "error"))
           = LimiterView(ProxyCall(State, prop, <<id, Len(calls) + 1>>, interval, "ok"))
  /\ Due(throttleGlobal) =>
       LimiterView(GlobalResumed(State, "error"))
         = LimiterView(GlobalResumed(State, "ok"))
  /\ \A t \in DOMAIN throttles :
       Due(throttles[t]) =>
         LimiterView(RecipientResumed(State, t, "error"))
           = LimiterView(RecipientResumed(State, t, "ok"))

\* C10: in safe mode, a send settles exactly as its execution ended (value or
\* error) and is pending until then; a failing execution leaves the limiters
\* as a succeeding one does.
C10_OutcomeDelivered ==
  safe =>
    /\ \A c \in SendCalls :
         /\ \A i \in ExecsOf(c) : calls[c].result = wcfLog[i].outcome
         /\ ExecsOf(c) = {} => calls[c].result = "pending"
    /\ FailureNeutral

\* C10 witness: a send that waited has failed and its caller got the error,
\* and a later send to the same recipient has been executed after waiting.
C10_Witness ==
  /\ safe
  /\ \E i, j \in SendExecs :
       /\ i < j
       /\ wcfLog[i].receiver = wcfLog[j].receiver
       /\ wcfLog[i].outcome = "error"
       /\ calls[wcfLog[i].call].result = "error"
       /\ calls[wcfLog[i].call].waited # {}
       /\ calls[wcfLog[j].call].waited # {}
       /\ calls[wcfLog[j].call].result = "ok"

\* The sends made so far go to pairwise distinct recipients.
DistinctRecipients ==
  \A c, d \in SendCalls : c # d => calls[c].args[1] # calls[d].args[1]

\* The sends that wait at the global limiter.
WaitingAtGlobal == {c \in SendCalls : calls[c].phase = "global"}

\* Within a window of the global limiter, at most GlobalLimit send
\* executions have started, and exactly GlobalLimit when a send waits at the
\* limiter with no timer due: of the sends that arrive inside one window,
\* GlobalLimit execute within it.
WindowQuotaUsed ==
  /\ globalWindowExecs <= GlobalLimit
  /\ (WaitingAtGlobal # {} /\ ~Due(throttleGlobal)) =>
       /\ ~WindowElapsed(throttleGlobal)
       /\ globalWindowExecs = GlobalLimit
       /\ \A c \in globalWindowCalls : calls[c].phase = "executed"

\* A send is executed in the step in which the global limiter starts it; a
\* send that waited at the global limiter is started only after the window
\* it waited in has elapsed, at the begin of a later window.
ExecutesAfterRollover ==
  \A c \in DOMAIN calls' :
    (calls'[c].phase = "executed" /\ calls'[c].prop \in SendMethods
       /\ (c \notin DOMAIN calls \/ calls[c].phase # "executed")) =>
      /\ c \in globalWindowCalls'
      /\ c \notin DOMAIN calls \/ ~calls[c].gAdmitted
      /\ (c \in DOMAIN calls /\ calls[c].phase = "global") =>
           /\ throttleGlobal'.windowAge = 0
           /\ WindowElapsed(throttleGlobal) \/ throttleGlobal.windowAge = 0
           /\ c \notin globalWindowCalls

\* C11: in safe mode, when sends for pairwise distinct recipients arrive
\* inside one window of the global limiter, more of them than GlobalLimit,
\* exactly GlobalLimit of them execute within that window, and each of the
\* others executes only after the window has rolled over.
C11_WindowExactlyLimit ==
  /\ []((safe /\ DistinctRecipients) => WindowQuotaUsed)
  /\ [][(safe /\ DistinctRecipients') => ExecutesAfterRollover]_vars

\* C11 witness: more sends than GlobalLimit, to pairwise distinct
\* recipients, were made at one instant; GlobalLimit of them executed at
\* once, and one that waited at the global limiter has just been executed
\* at the begin of the next window.
C11_Witness ==
  /\ safe /\ DistinctRecipients
  /\ Cardinality(SendCalls) > GlobalLimit
  /\ \E i, j \in SendExecs :
       /\ i < j
       /\ calls[wcfLog[i].call].waited = {}
       /\ "global" \in calls[wcfLog[j].call].waited
       /\ wcfLog[j].call \in globalWindowCalls
       /\ wcfLog[i].call \notin globalWindowCalls
       /\ throttleGlobal.windowAge = 0

\* The agent's outbound primitives whose first parameter is the recipient
\* (conversationId): text, image, file, rich content and forward.
OutboundMethods == SendMethods \cup {"forwardMsg"}

\* C15: in safe mode, every execution of an outbound primitive (sendText,
\* sendImage, sendFile, sendRichText, forwardMsg) comes after the global
\* limiter and the recipient's throttle both admitted the call.
C15_OutboundGated ==
  safe =>
    \A i \in DOMAIN wcfLog :
      calls[wcfLog[i].call].prop \in OutboundMethods
        => calls[wcfLog[i].call].gAdmitted /\ calls[wcfLog[i].call].rAdmitted

\* The calls of operations that send nothing.
NonSendCalls == {c \in DOMAIN calls : calls[c].prop \in NonSendMethods}

\* A step in which an operation that sends nothing is called: the call is
\* executed within the step, once, and the registry, the throttles it holds,
\* the global limiter and the progress of every other call stay as they are.
NonSendStep ==
  LET c == Len(calls) + 1
  IN (Len(calls') = c /\ calls'[c].prop \in NonSendMethods) =>
       /\ calls'[c].phase = "executed"
       /\ calls'[c].waited = {}
       /\ ~calls'[c].gAdmitted /\ ~calls'[c].rAdmitted
       /\ Len(wcfLog') = Len(wcfLog) + 1
       /\ wcfLog'[Len(wcfLog')].call = c
       /\ wcfLog'[Len(wcfLog')].op = TransportOp(calls'[c].prop)
       /\ SubSeq(wcfLog', 1, Len(wcfLog)) = wcfLog
       /\ SubSeq(calls', 1, Len(calls)) = calls
       /\ throttleGlobal' = throttleGlobal
       /\ throttles' = throttles
       /\ recipientThrottles' = recipientThrottles

\* C19: in safe mode, an operation that sends nothing (inviteChatRoomMembers,
\* addChatRoomMembers, removeChatRoomMembers, dbSqlQuery, a get* read path)
\* executes within its call, whatever sends are queued, and leaves the
\* registry and both limiters unchanged.
C19_NonSendImmediate == [][safe => NonSendStep]_vars

\* C19 witness: in safe mode an operation that sends nothing, called with
\* the id of a recipient whose earlier send still waits at a limiter, has
\* executed.
C19_Witness ==
  /\ safe
  /\ \E c \in NonSendCalls :
       /\ calls[c].phase = "executed"
       /\ \E d \in SendCalls :
            /\ d < c
            /\ calls[d].phase \in {"global", "recipient"}
            /\ calls[d].args[1] = calls[c].args[1]

\* The limiters: the global limiter (index 0) and the recipient throttles.
LimiterIds == {0} \cup DOMAIN throttles
LimiterAt(k) == IF k = 0 THEN throttleGlobal ELSE throttles[k]
LimiterAfter(k) == IF k = 0 THEN throttleGlobal' ELSE throttles'[k]

\* The calls limiter k has started, as the calls stand in `cs`.
StartedBy(cs, k) ==
  IF k = 0 THEN {c \in DOMAIN cs : cs[c].gAdmitted}
           ELSE {c \in DOMAIN cs : cs[c].throttle = k /\ cs[c].rAdmitted}

\* The calls that have arrived at limiter k: every gated call arrives at the
\* global limiter when it is made, and at its recipient's throttle when the
\* global limiter starts it.
ArrivedAt(cs, k) ==
  IF k = 0 THEN {c \in DOMAIN cs : cs[c].throttle # 0}
           ELSE {c \in DOMAIN cs : cs[c].throttle = k /\ cs[c].gAdmitted}

Full(L) == L.usedInWindow = L.capacity /\ ~WindowElapsed(L)

\* Every limiter counts at most its capacity in its window; its deferred
\* calls are exactly the arrived calls it has not started, in arrival order,
\* all of them arrived after every call it has started; and calls are
\* deferred only while the window is full or its timer is due.
LimiterInv ==
  \A k \in LimiterIds :
    LET L == LimiterAt(k)
        q == L.pendingQueue
    IN /\ L.usedInWindow <= L.capacity
       /\ \A i, j \in DOMAIN q : i < j => q[i] < q[j]
       /\ {q[i] : i \in DOMAIN q} = ArrivedAt(calls, k) \ StartedBy(calls, k)
       /\ \A i \in DOMAIN q : \A d \in StartedBy(calls, k) : d < q[i]
       /\ q # <<>> => (Full(L) \/ Due(L))

\* A step of a limiter: a call that arrives while the window is full is
\* deferred, and a deferred call is started only as the oldest deferred one
\* and at the begin of a new window.
LimiterStep ==
  \A k \in LimiterIds :
    LET L == LimiterAt(k)
        q == L.pendingQueue
        arriving == ArrivedAt(calls', k) \ ArrivedAt(calls, k)
        starting == StartedBy(calls', k) \ StartedBy(calls, k)
        deferred == {q[i] : i \in DOMAIN q}
    IN /\ Full(L) =>
            \A c \in arriving :
              /\ c \notin starting
              /\ LimiterAfter(k).pendingQueue = Append(q, c)
       /\ \A c \in starting \cap deferred :
            /\ c = Head(q)
            /\ LimiterAfter(k).windowAge = 0
            /\ WindowElapsed(L) \/ L.windowAge = 0

\* C16: every limiter (the global limiter and each recipient throttle) counts
\* at most its capacity of calls in its current window; a call that arrives
\* while the count equals the capacity and the window has not elapsed is
\* deferred and started only when a new window begins; deferred calls are
\* started in arrival order, before any call that arrived later.
C16_LimiterDiscipline == []LimiterInv /\ [][LimiterStep]_vars

\* C16 witness: the global limiter's window is full and it holds a deferred
\* call, and a recipient throttle has just started, in a new window, a call
\* it had deferred.
C16_Witness ==
  /\ safe
  /\ throttleGlobal.usedInWindow = throttleGlobal.capacity
  /\ \E c \in SendCalls :
       /\ "recipient" \in calls[c].waited
       /\ calls[c].rAdmitted
       /\ throttles[calls[c].throttle].windowAge = 0
  /\ throttleGlobal.pendingQueue # <<>>

\* The events a step adds, by name.
EmittedNames ==
  {events'[k].name : k \in (Len(events) + 1)..Len(events')}

\* The login queries of the handler that ran in a step, by answer.
QueriesAnswered(answer) ==
  {k \in DOMAIN lastOp'.answers : lastOp'.answers[k] = answer}

\* A run of a lifecycle handler whose login query fails: no event is taken
\* back; unless another query of the same run answers "logged in", the run
\* emits neither login nor logout and detects no login; and stop() leaves the
\* transport stopped and the timer field null.
SwallowedStep ==
  (steps' = steps + 1 /\ QueriesAnswered("throw") # {}) =>
    /\ SubSeq(events', 1, Len(events)) = events
    /\ QueriesAnswered("yes") = {} =>
         /\ "login" \notin EmittedNames
         /\ "logout" \notin EmittedNames
         /\ detected' = detected
    /\ lastOp'.op = "stop" => (~wcfRunning' /\ timer' = NullTimer)

\* C14: a failure of the transport's login-state query is swallowed and
\* taken as "not logged in": the handler run completes, the check emits no
\* login event for it, and stop() emits no logout event for it and still
\* stops the transport.
C14_QueryFailureSwallowed == [][SwallowedStep]_vars

\* C14 witness: after a start, stop() ran while the transport was logged in
\* and its login query failed: the transport is stopped and no logout event
\* has been emitted.
C14_Witness ==
  /\ lastOp = [op |-> "stop", answers |-> <<"throw">>]
  /\ intervals # <<>>
  /\ wcfLogin
  /\ ~wcfRunning
  /\ \A k \in DOMAIN events : events[k].name # "logout"

\* The login events emitted so far, as positions of events.
Logins == {k \in DOMAIN events : events[k].name = "login"}

\* C17: after one start() whose login check got an answer, at most one
\* login event is emitted, and once a login check of start() or of the
\* polling loop has seen the transport logged in, the login event has been
\* emitted.
C17_LoginOnce ==
  (Len(intervals) = 1 /\ intervals[1].checked # "throw") =>
    /\ Cardinality(Logins) <= 1
    /\ detected => Cardinality(Logins) = 1

\* The intervals that are still set.
ActiveIntervals == {i \in DOMAIN intervals : intervals[i].active}

\* C18: once stopTimer() has run, the polling interval set before it is
\* cancelled and has fired no tick since, and at most one polling interval
\* is set at any time.
C18_TimerCancelled ==
  /\ \A i \in DOMAIN intervals :
       /\ intervals[i].stopped => ~intervals[i].active
       /\ intervals[i].lateTicks = 0
  /\ Cardinality(ActiveIntervals) <= 1

\* The sender a sender-extra blob carries: the values of the sender field
\* that comes first in a buffer that is not cut short, when not empty.
SenderIn(blob) ==
  {blob.fields[i].value : i \in
     {i \in DOMAIN blob.fields :
        /\ ~blob.truncated
        /\ blob.fields[i].tag = "sender"
        /\ blob.fields[i].value # ""
        /\ \A j \in 1..(i - 1) : blob.fields[j].tag # "sender"}}

\* C12: the history read returns one entry per row of the query, in the
\* query's order and with the row's columns; talkerWxid is the sender the
\* row's sender-extra blob carries, and the agent's own account when the blob
\* carries none or an empty one.
C12_TalkerWxid ==
  returned.op = "getHistoryMessageList" =>
    /\ ~returned.failed
    /\ Len(returned.value) = Len(MSG)
    /\ \A i \in DOMAIN MSG :
         /\ returned.value[i].localId = MSG[i].localId
         /\ returned.value[i].BytesExtra = MSG[i].BytesExtra
         /\ IF SenderIn(MSG[i].BytesExtra) = {}
              THEN returned.value[i].talkerWxid = SelfWxid
              ELSE returned.value[i].talkerWxid \in SenderIn(MSG[i].BytesExtra)

\* C12 witness: a history read of two rows, the first with a blob that
\* carries no sender and the second with the sender "wxid_abc123", returned
\* the own account for the first and "wxid_abc123" for the second.
C12_Witness ==
  /\ returned.op = "getHistoryMessageList"
  /\ Len(MSG) = 2
  /\ SenderIn(MSG[1].BytesExtra) = {}
  /\ SenderIn(MSG[2].BytesExtra) = {"wxid_abc123"}
  /\ returned.value[1].talkerWxid = SelfWxid
  /\ returned.value[2].talkerWxid = "wxid_abc123"

\* The member identifiers a room-membership blob yields: those of its
\* sub-records before the first chunk that does not decode, in buffer order.
MembersIn(blob) ==
  IF ~blob.present THEN <<>>
  ELSE LET bad == {i \in DOMAIN blob.chunks : blob.chunks[i].kind # "member"}
           n == IF bad = {} THEN Len(blob.chunks)
                ELSE (CHOOSE i \in bad : \A j \in bad : i <= j) - 1
       IN [k \in 1..n |-> blob.chunks[k].wxid]

\* C13: the room detail read never fails and returns one entry per row of
\* the query, in the query's order; memberIdList holds the member
\* identifiers of the row's room-membership blob in buffer order, and is
\* empty when the blob yields none.
C13_MemberIdList ==
  returned.op = "getChatRoomDetailList" =>
    /\ ~returned.failed
    /\ Len(returned.value) = Len(ChatRoom)
    /\ \A i \in DOMAIN ChatRoom :
         /\ returned.value[i].UserName = ChatRoom[i].UserName
         /\ returned.value[i].memberIdList = MembersIn(ChatRoom[i].RoomData)

\* C13 witness: a room detail read of two rows, the first without a
\* membership blob and the second with the members "w2", "w1" in that order,
\* returned an empty list for the first and <<"w2", "w1">> for the second.
C13_Witness ==
  /\ returned.op = "getChatRoomDetailList"
  /\ Len(ChatRoom) = 2
  /\ ~ChatRoom[1].RoomData.present
  /\ returned.value[1].memberIdList = <<>>
  /\ returned.value[2].memberIdList = <<"w2", "w1">>

====
